---- MODULE Spec2Model ----
(***************************************************************************)
(* Model of the faery decoders as exposed to the host language:            *)
(*   src/src/aedat/mod.rs         Decoder (new, id_to_stream, __next__)    *)
(*   src/src/event_stream/mod.rs  Decoder (new, getters, __next__)         *)
(*   src/src/utilities.rs         set_dtype_as_list_field                  *)
(* The inner decoders (mod decoder) and the generated flatbuffers readers  *)
(* are not part of the sources; they are modelled from the specification.  *)
(***************************************************************************)
EXTENDS Integers, Sequences, FiniteSets, TLC

VARIABLES
    module,             \* which Decoder class was constructed: "aedat" | "event_stream"
    id_to_stream,       \* aedat: decoder.id_to_stream, stream id -> Stream
    event_stream_type,  \* event_stream: decoder.event_stream_type
    width,              \* event_stream: decoder.width  (Option<u16>)
    height,             \* event_stream: decoder.height (Option<u16>)
    state,              \* cursor of the inner decoder: "ready" | "exhausted" | "failed"
    position,           \* number of blocks the inner decoder has consumed
    returned,           \* what the last decoder.next() returned
    result,             \* what the last __next__ returned to the caller
    nones,              \* history: number of __next__ calls that returned None (saturating)
    error_seen,         \* history: a __next__ call before the last one returned an error
    construction,       \* what Decoder::new did: called, path converted, header parsed, object built
    python_value,       \* what the last id_to_stream() or getter call returned
    objects,            \* borrow grain: per Decoder instance, its borrow flag, cursor and registry
    calls,              \* borrow grain: per caller, where its __next__ call is
    borrow_error        \* borrow grain: a call was refused the borrow of its instance

vars == <<module, id_to_stream, event_stream_type, width, height,
          state, position, returned, result, nones, error_seen,
          construction, python_value, objects, calls, borrow_error>>

(***************************************************************************)
(* Bounds of the model.                                                    *)
(***************************************************************************)
MaxBlocks == 2
MaxEvents == 2
MaxElements == 2
MaxPixels == 2
MaxInstances == 2
MaxCallers == 2

(***************************************************************************)
(* Option and Result values.                                               *)
(***************************************************************************)
None == [some |-> FALSE, value |-> <<>>]
Some(v) == [some |-> TRUE, value |-> v]

Ok(v) == [ok |-> TRUE, value |-> v, error |-> ""]
Err(e) == [ok |-> FALSE, value |-> <<>>, error |-> e]

SeqsUpTo(S, n) == UNION {[1..k -> S] : k \in 0..n}

(***************************************************************************)
(* Integer casts.                                                          *)
(***************************************************************************)
\* u16 as i16
U16AsI16(v) == IF v >= 32768 THEN v - 65536 ELSE v
\* i16 as u16
I16AsU16(v) == IF v < 0 THEN v + 65536 ELSE v
\* i64 as u64: a negative value wraps to 2^64 + v. That sum is beyond the
\* integers this module computes with and is kept as the record of its term.
I64AsU64(v) == IF v >= 0 THEN v ELSE [two_pow_64_plus |-> v]

(***************************************************************************)
(* Values returned by __next__.                                            *)
(***************************************************************************)
NoPacket == [stream_id |-> -1, key |-> "", value |-> <<>>]
\* Ok(None)
PyNone == [kind |-> "none", error |-> "", packet |-> NoPacket]
\* Ok(Some(python_packet))
PyPacket(stream_id, key, value) ==
    [kind |-> "packet", error |-> "",
     packet |-> [stream_id |-> stream_id, key |-> key, value |-> value]]
\* Err(PyRuntimeError(error)) and errors raised through `?`
PyErr(error) == [kind |-> "error", error |-> error, packet |-> NoPacket]
\* panic!(message), surfaced by the host runtime
PyPanic(message) == [kind |-> "panic", error |-> message, packet |-> NoPacket]
\* the process died (a read through a null pointer)
PyCrash == [kind |-> "crash", error |-> "", packet |-> NoPacket]
\* before the first call
NotCalled == [kind |-> "init", error |-> "", packet |-> NoPacket]

(***************************************************************************)
(* The numpy structured array built by hand in __next__: a dtype described *)
(* by a Python list of (name, type) tuples, and cells written by offset.   *)
(***************************************************************************)
Null == <<"NULL", "NULL">>

\* pyo3::ffi::PyList_New(size): a list of `size` slots, all NULL
PyList_New(size) == [panic |-> "", list |-> [i \in 1..size |-> Null]]

\* utilities::set_dtype_as_list_field(python, list, index, name, numpy_type):
\* PyList_SetItem fails on an index outside the list, and the function panics
set_dtype_as_list_field(dtype_as_list, index, name, numpy_type) ==
    IF dtype_as_list.panic # "" THEN dtype_as_list
    ELSE IF index < 0 \/ index >= Len(dtype_as_list.list)
         THEN [dtype_as_list EXCEPT !.panic = "PyList_SetItem failed"]
         ELSE [dtype_as_list EXCEPT !.list[index + 1] = <<name, numpy_type>>]

\* the successive set_dtype_as_list_field calls of one conversion;
\* fields[i] = <<index, name, numpy_type>> in the order of the source
RECURSIVE SetFields(_, _)
SetFields(dtype_as_list, fields) ==
    IF fields = <<>> THEN dtype_as_list
    ELSE SetFields(set_dtype_as_list_field(dtype_as_list, fields[1][1],
                                           fields[1][2], fields[1][3]),
                   Tail(fields))

\* size in bytes of one element of a numpy type
TypeSize(numpy_type) ==
    CASE numpy_type = "u64" -> 8
      [] numpy_type = "u16" -> 2
      [] numpy_type = "u8" -> 1
      [] numpy_type = "bool" -> 1
      [] numpy_type = "f32" -> 4
      [] numpy_type = "object" -> 8

\* PyArray_DescrConverter on a list of (name, type) tuples: a packed record
\* type, each field at the sum of the sizes of the fields before it
RECURSIVE FieldOffset(_, _)
FieldOffset(list, i) ==
    IF i = 1 THEN 0 ELSE FieldOffset(list, i - 1) + TypeSize(list[i - 1][2])

ItemSize(list) ==
    IF list = <<>> THEN 0
    ELSE FieldOffset(list, Len(list)) + TypeSize(list[Len(list)][2])

\* The outcomes of PyArray_DescrConverter(dtype_as_list). A list with a slot
\* left NULL is read through a null pointer: undefined behaviour, the run
\* either dies or the converter fails and __next__ panics.
DescrConverterOutcomes(dtype_as_list) ==
    IF dtype_as_list.panic # "" THEN {dtype_as_list.panic}
    ELSE IF \E i \in 1..Len(dtype_as_list.list) : dtype_as_list.list[i] = Null
         THEN {"PyArray_DescrConverter failed", "crash"}
         ELSE {""}

Uninit == 0 - 2147483647

\* PyArray_NewFromDescr + PyArray_GetPtr: one cell of the new array
NewCell(list) == [offset \in 0..(ItemSize(list) - 1) |-> Uninit]

\* the run died on a write through a misaligned pointer
Misaligned == "misaligned pointer dereference"

\* *(cell.offset(offset) as *mut T) = value, for the cell that starts
\* `address` bytes after the start of the data of the array (aligned by
\* numpy), T being the numpy type. A pointer that is not a multiple of the
\* size of T is undefined behaviour: the value is written, or the run dies
\* on the pointer check of a build with debug assertions.
WriteCell(cell, address, offset, numpy_type, value) ==
    IF (address + offset) % TypeSize(numpy_type) = 0
    THEN {Ok([cell EXCEPT ![offset] = value])}
    ELSE {Ok([cell EXCEPT ![offset] = value]), Err(Misaligned)}

\* the writes of one record into its cell, in the order of the source;
\* writes[k] = <<offset, numpy_type, value>>
RECURSIVE WriteAll(_, _, _)
WriteAll(cell, address, writes) ==
    IF writes = <<>> THEN {Ok(cell)}
    ELSE UNION { IF written.ok THEN WriteAll(written.value, address, Tail(writes))
                 ELSE {written} :
                 written \in WriteCell(cell, address, writes[1][1],
                                       writes[1][2], writes[1][3]) }

\* the cells the caller sees through the dtype: one record per cell
ReadCell(list, cell) ==
    [name \in {list[i][1] : i \in 1..Len(list)} |->
        LET i == CHOOSE i \in 1..Len(list) : list[i][1] = name
        IN  cell[FieldOffset(list, i)]]

ReadArray(list, cells) == [i \in 1..Len(cells) |-> ReadCell(list, cells[i])]

(***************************************************************************)
(* The inner aedat decoder's values: streams and buffers (from the spec).   *)
(***************************************************************************)
StreamContents == {"Events", "Frame", "Imus", "Triggers"}

\* stream geometries <<width, height>> the model opens files with (u16)
Geometries == {<<2, 2>>, <<32768, 2>>, <<2, 65535>>}

\* a well-formed size prefix, a truncated length header, and a declared
\* length larger than the bytes that remain
SizePrefixes ==
    { [header_bytes |-> 4, declared |-> 1, available |-> 1],
      [header_bytes |-> 2, declared |-> 0, available |-> 0],
      [header_bytes |-> 4, declared |-> 2, available |-> 1] }

\* flatbuffers size_prefixed_root_as_*: the table, or an error
size_prefixed_root(buffer) ==
    IF buffer.prefix.header_bytes = 4
       /\ buffer.prefix.declared <= buffer.prefix.available
    THEN Ok(buffer.table)
    ELSE Err("InvalidFlatbuffer")

\* Event structs of an EventPacket (t: i64, x: i16, y: i16, on: bool)
AedatEvents ==
    { [t |-> 10, x |-> 1, y |-> 0, on |-> TRUE],
      [t |-> 5, x |-> 0, y |-> 1, on |-> FALSE],
      [t |-> 5, x |-> 2, y |-> 1, on |-> TRUE],
      [t |-> 10, x |-> 1, y |-> 2, on |-> FALSE],
      [t |-> 20, x |-> -1, y |-> 0, on |-> TRUE] }

\* a packet of three events: two inside a stream of 2 columns and 2 rows,
\* then one beyond its width
LongEvents ==
    << [t |-> 10, x |-> 1, y |-> 0, on |-> TRUE],
       [t |-> 5, x |-> 0, y |-> 1, on |-> FALSE],
       [t |-> 5, x |-> 2, y |-> 1, on |-> TRUE] >>

EventsTables == {[elements |-> None]}
    \cup {[elements |-> Some(es)] : es \in SeqsUpTo(AedatEvents, MaxEvents)}
    \cup {[elements |-> Some(LongEvents)]}

(***************************************************************************)
(* aedat __next__, StreamContent::Events (src/src/aedat/mod.rs 81-175).    *)
(***************************************************************************)
EventsDtype ==
    SetFields(PyList_New(4),
              << <<0, "t", "u64">>, <<1, "x", "u16">>,
                 <<2, "y", "u16">>, <<3, "on", "bool">> >>)

\* the writes of one event into its cell
EventWrites(event) ==
    << <<0, "u64", I64AsU64(event.t)>>, <<8, "u16", I16AsU16(event.x)>>,
       <<10, "u16", I16AsU16(event.y)>>, <<12, "u8", IF event.on THEN 1 ELSE 0>> >>

\* body of `for mut index in 0_isize..length`: the cells written, the error
\* that leaves the loop, or the death of the run on a misaligned write
RECURSIVE EventsLoop(_, _, _, _)
EventsLoop(events, stream, index, cells) ==
    IF index >= Len(events) THEN {Ok(cells)}
    ELSE LET event == events[index + 1]
             x == event.x
             y == event.y
         IN  IF x < 0 \/ x >= U16AsI16(stream.width) THEN {Err("XOverflow")}
             ELSE IF y < 0 \/ y >= U16AsI16(stream.height) THEN {Err("YOverflow")}
             ELSE UNION { IF cell.ok
                          THEN EventsLoop(events, stream, index + 1,
                                          Append(cells, cell.value))
                          ELSE {cell} :
                          cell \in WriteAll(NewCell(EventsDtype.list),
                                            index * ItemSize(EventsDtype.list),
                                            EventWrites(event)) }

\* the values of __next__ once the dtype is converted and the loop has run
Filled(stream_id, key, dtype_as_list, filled) ==
    IF filled.ok
    THEN PyPacket(stream_id, key, ReadArray(dtype_as_list.list, filled.value))
    ELSE IF filled.error = Misaligned THEN PyCrash
    ELSE PyErr(filled.error)

\* NextEvents that takes an elements field holding no record for an absent one
NextEventsEmptyAsAbsent(packet) ==
    LET root == size_prefixed_root(packet.buffer)
    IN  IF ~root.ok THEN {PyErr("MissingPacketSizePrefix")}
        ELSE IF ~root.value.elements.some \/ root.value.elements.value = <<>>
             THEN {PyErr("EmptyEventsPacket")}
        ELSE LET events == root.value.elements.value
             IN  UNION { IF converted = "crash" THEN {PyCrash}
                         ELSE IF converted # "" THEN {PyPanic(converted)}
                         ELSE {Filled(packet.stream_id, "events", EventsDtype, filled) :
                               filled \in EventsLoop(events, packet.stream, 0, <<>>)} :
                         converted \in DescrConverterOutcomes(EventsDtype) }

\* the possible values of __next__ for a packet of an Events stream
NextEvents(packet) ==
    LET root == size_prefixed_root(packet.buffer)
    IN  IF ~root.ok THEN {PyErr("MissingPacketSizePrefix")}
        ELSE IF ~root.value.elements.some THEN {PyErr("EmptyEventsPacket")}
        ELSE LET events == root.value.elements.value
             IN  UNION { IF converted = "crash" THEN {PyCrash}
                         ELSE IF converted # "" THEN {PyPanic(converted)}
                         ELSE {Filled(packet.stream_id, "events", EventsDtype, filled) :
                               filled \in EventsLoop(events, packet.stream, 0, <<>>)} :
                         converted \in DescrConverterOutcomes(EventsDtype) }

(***************************************************************************)
(* aedat __next__, StreamContent::Frame (src/src/aedat/mod.rs 176-258).    *)
(***************************************************************************)
\* frame_generated::FrameFormat, from the format code of the table
FrameFormat(code) ==
    CASE code = 0 -> "Gray"
      [] code = 1 -> "Bgr"
      [] code = 2 -> "Bgra"
      [] OTHER -> "Unknown"

FormatCodes == {0, 1, 2, 3}

\* <<width, height>> of the frames: up to MaxPixels pixels, or none
FrameSizes ==
    {<<0, 1>>} \cup {<<w, h>> \in (1..MaxPixels) \X (1..MaxPixels) : w * h <= MaxPixels}

\* pixel bytes on disk: all different within a buffer
PixelBytes(length) == [i \in 1..length |-> (250 + 7 * i) % 256]

\* absent, or as long as one of the three formats asks for
PixelBuffers(w, h) ==
    {None} \cup {Some(PixelBytes(w * h * channels)) : channels \in {1, 3, 4}}

FrameTimes(w) ==
    IF w = 1
    THEN [t |-> 10, begin_t |-> 8, end_t |-> 12, exposure_begin_t |-> 9,
          exposure_end_t |-> 11, offset_x |-> 0, offset_y |-> 0]
    ELSE [t |-> 5, begin_t |-> 5, end_t |-> 5, exposure_begin_t |-> 5,
          exposure_end_t |-> 5, offset_x |-> -1, offset_y |-> 3]

FrameTables ==
    UNION { { [t |-> FrameTimes(size[1]).t, begin_t |-> FrameTimes(size[1]).begin_t,
               end_t |-> FrameTimes(size[1]).end_t,
               exposure_begin_t |-> FrameTimes(size[1]).exposure_begin_t,
               exposure_end_t |-> FrameTimes(size[1]).exposure_end_t,
               format |-> code, width |-> size[1], height |-> size[2],
               offset_x |-> FrameTimes(size[1]).offset_x,
               offset_y |-> FrameTimes(size[1]).offset_y, pixels |-> pixels] :
               code \in FormatCodes, pixels \in PixelBuffers(size[1], size[2]) } :
            size \in FrameSizes }

RECURSIVE Product(_)
Product(dimensions) ==
    IF dimensions = <<>> THEN 1 ELSE dimensions[1] * Product(Tail(dimensions))

\* reshape that takes any number of bytes
reshapeUnchecked(bytes, dimensions) ==
    Ok([shape |-> dimensions, data |-> bytes])

\* numpy reshape: the same bytes under a new shape, or a ValueError
reshape(bytes, dimensions) ==
    IF Len(bytes) = Product(dimensions)
    THEN Ok([shape |-> dimensions, data |-> bytes])
    ELSE Err("ValueError: cannot reshape array")

\* zeros that leaves the channels out of the size
zerosWithoutChannels(dimensions) ==
    [shape |-> dimensions, data |-> [i \in 1..(dimensions[1] * dimensions[2]) |-> 0]]

\* numpy::array::PyArray::zeros(python, dimensions, false)
zeros(dimensions) ==
    [shape |-> dimensions, data |-> [i \in 1..Product(dimensions) |-> 0]]

\* pixels.swap(a, b), on 0-based indices
swap(pixels, a, b) ==
    [pixels EXCEPT ![a + 1] = pixels[b + 1], ![b + 1] = pixels[a + 1]]

\* SwapLoop that stops one pixel early
RECURSIVE SwapLoopSkippingLast(_, _, _)
SwapLoopSkippingLast(pixels, channels, index) ==
    IF index >= Len(pixels) \div channels - 1 THEN pixels
    ELSE SwapLoopSkippingLast(swap(pixels, index * channels, index * channels + 2),
                              channels, index + 1)

\* for index in 0..(pixels.len() / channels) { pixels.swap(index * channels, index * channels + 2) }
RECURSIVE SwapLoop(_, _, _)
SwapLoop(pixels, channels, index) ==
    IF index >= Len(pixels) \div channels THEN pixels
    ELSE SwapLoop(swap(pixels, index * channels, index * channels + 2),
                  channels, index + 1)

\* the "pixels" item of the frame: second `match frame.format()`
FramePixels(frame) ==
    LET format == FrameFormat(frame.format)
    IN  CASE format = "Gray" ->
               LET dimensions == <<frame.height, frame.width>>
               IN  IF frame.pixels.some
                   THEN reshape(frame.pixels.value, dimensions)
                   ELSE Ok(zeros(dimensions))
          [] format \in {"Bgr", "Bgra"} ->
               LET channels == IF format = "Bgr" THEN 3 ELSE 4
                   dimensions == <<frame.height, frame.width, channels>>
               IN  IF frame.pixels.some
                   THEN reshape(SwapLoop(frame.pixels.value, channels, 0), dimensions)
                   ELSE Ok(zeros(dimensions))
          [] OTHER -> Err("UnknownFrameFormat")

\* FrameFormatString with Bgra exposed as "RGB"
FrameFormatStringBgraAsRgb(frame) ==
    LET format == FrameFormat(frame.format)
    IN  CASE format = "Gray" -> Ok("L")
          [] format \in {"Bgr", "Bgra"} -> Ok("RGB")
          [] OTHER -> Err("UnknownFrameFormat")

\* the "format" item of the frame: first `match frame.format()`
FrameFormatString(frame) ==
    LET format == FrameFormat(frame.format)
    IN  CASE format = "Gray" -> Ok("L")
          [] format = "Bgr" -> Ok("RGB")
          [] format = "Bgra" -> Ok("RGBA")
          [] OTHER -> Err("UnknownFrameFormat")

NextFrame(packet) ==
    LET root == size_prefixed_root(packet.buffer)
    IN  IF ~root.ok THEN {PyErr("MissingPacketSizePrefix")}
        ELSE LET frame == root.value
                 format == FrameFormatString(frame)
                 pixels == FramePixels(frame)
             IN  IF ~format.ok THEN {PyErr(format.error)}
                 ELSE IF ~pixels.ok THEN {PyErr(pixels.error)}
                 ELSE {PyPacket(packet.stream_id, "frame",
                         [t |-> frame.t, begin_t |-> frame.begin_t, end_t |-> frame.end_t,
                          exposure_begin_t |-> frame.exposure_begin_t,
                          exposure_end_t |-> frame.exposure_end_t,
                          format |-> format.value,
                          width |-> frame.width, height |-> frame.height,
                          offset_x |-> frame.offset_x, offset_y |-> frame.offset_y,
                          pixels |-> pixels.value])}

(***************************************************************************)
(* aedat __next__, StreamContent::Imus (src/src/aedat/mod.rs 259-402).     *)
(***************************************************************************)
ImuFields ==
    << "temperature", "accelerometer_x", "accelerometer_y", "accelerometer_z",
       "gyroscope_x", "gyroscope_y", "gyroscope_z",
       "magnetometer_x", "magnetometer_y", "magnetometer_z" >>

\* an Imu table whose fields are t, t + 1, ..., t + 10 (abstract f32 values)
ImuSample(t) ==
    [name \in {"t"} \cup {ImuFields[i] : i \in 1..Len(ImuFields)} |->
        IF name = "t" THEN t
        ELSE t + (CHOOSE i \in 1..Len(ImuFields) : ImuFields[i] = name)]

AedatImus == {ImuSample(100), ImuSample(50)}

ImusTables == {[elements |-> None]}
    \cup {[elements |-> Some(es)] : es \in SeqsUpTo(AedatImus, MaxElements)}

ImusDtype ==
    SetFields(PyList_New(11),
              << <<0, "t", "u64">>, <<1, "temperature", "f32">>,
                 <<2, "accelerometer_x", "f32">>, <<3, "accelerometer_y", "f32">>,
                 <<4, "accelerometer_z", "f32">>, <<5, "gyroscope_x", "f32">>,
                 <<6, "gyroscope_y", "f32">>, <<7, "gyroscope_z", "f32">>,
                 <<8, "magnetometer_x", "f32">>, <<9, "magnetometer_y", "f32">>,
                 <<10, "magnetometer_z", "f32">> >>)

\* ImuWrites with magnetometer_z written over magnetometer_y
ImuWritesMagnetometerZAt40(imu) ==
    << <<0, "u64", I64AsU64(imu.t)>>, <<8, "f32", imu.temperature>>,
       <<12, "f32", imu.accelerometer_x>>, <<16, "f32", imu.accelerometer_y>>,
       <<20, "f32", imu.accelerometer_z>>, <<24, "f32", imu.gyroscope_x>>,
       <<28, "f32", imu.gyroscope_y>>, <<32, "f32", imu.gyroscope_z>>,
       <<36, "f32", imu.magnetometer_x>>, <<40, "f32", imu.magnetometer_y>>,
       <<40, "f32", imu.magnetometer_z>> >>

\* the writes of one imu into its cell
ImuWrites(imu) ==
    << <<0, "u64", I64AsU64(imu.t)>>, <<8, "f32", imu.temperature>>,
       <<12, "f32", imu.accelerometer_x>>, <<16, "f32", imu.accelerometer_y>>,
       <<20, "f32", imu.accelerometer_z>>, <<24, "f32", imu.gyroscope_x>>,
       <<28, "f32", imu.gyroscope_y>>, <<32, "f32", imu.gyroscope_z>>,
       <<36, "f32", imu.magnetometer_x>>, <<40, "f32", imu.magnetometer_y>>,
       <<44, "f32", imu.magnetometer_z>> >>

\* `for imu in imus`, index counting the cells
RECURSIVE ImusLoop(_, _, _)
ImusLoop(imus, index, cells) ==
    IF index >= Len(imus) THEN {Ok(cells)}
    ELSE UNION { IF cell.ok THEN ImusLoop(imus, index + 1, Append(cells, cell.value))
                 ELSE {cell} :
                 cell \in WriteAll(NewCell(ImusDtype.list),
                                   index * ItemSize(ImusDtype.list),
                                   ImuWrites(imus[index + 1])) }

\* NextImus reporting a buffer that is no size-prefixed table as an empty packet
NextImusWrongError(packet) ==
    LET root == size_prefixed_root(packet.buffer)
    IN  IF ~root.ok THEN {PyErr("EmptyEventsPacket")}
        ELSE IF ~root.value.elements.some THEN {PyErr("EmptyEventsPacket")}
        ELSE LET imus == root.value.elements.value
             IN  UNION { IF converted = "crash" THEN {PyCrash}
                         ELSE IF converted # "" THEN {PyPanic(converted)}
                         ELSE {Filled(packet.stream_id, "imus", ImusDtype, filled) :
                               filled \in ImusLoop(imus, 0, <<>>)} :
                         converted \in DescrConverterOutcomes(ImusDtype) }

NextImus(packet) ==
    LET root == size_prefixed_root(packet.buffer)
    IN  IF ~root.ok THEN {PyErr("MissingPacketSizePrefix")}
        ELSE IF ~root.value.elements.some THEN {PyErr("EmptyEventsPacket")}
        ELSE LET imus == root.value.elements.value
             IN  UNION { IF converted = "crash" THEN {PyCrash}
                         ELSE IF converted # "" THEN {PyPanic(converted)}
                         ELSE {Filled(packet.stream_id, "imus", ImusDtype, filled) :
                               filled \in ImusLoop(imus, 0, <<>>)} :
                         converted \in DescrConverterOutcomes(ImusDtype) }

(***************************************************************************)
(* aedat __next__, StreamContent::Triggers (src/src/aedat/mod.rs 403-495). *)
(***************************************************************************)
\* triggers_generated::TriggerSource, from the source code of the struct
TriggerSource(code) ==
    CASE code = 0 -> "TimestampReset"
      [] code = 1 -> "ExternalSignalRisingEdge"
      [] code = 2 -> "ExternalSignalFallingEdge"
      [] code = 3 -> "ExternalSignalPulse"
      [] code = 4 -> "ExternalGeneratorRisingEdge"
      [] code = 5 -> "ExternalGeneratorFallingEdge"
      [] code = 6 -> "FrameBegin"
      [] code = 7 -> "FrameEnd"
      [] code = 8 -> "ExposureBegin"
      [] code = 9 -> "ExposureEnd"
      [] OTHER -> "Unknown"

AedatTriggers ==
    { [t |-> 10, source |-> 0], [t |-> 5, source |-> 9],
      [t |-> 20, source |-> 11] }

TriggersTables == {[elements |-> None]}
    \cup {[elements |-> Some(es)] : es \in SeqsUpTo(AedatTriggers, MaxElements)}

TriggersDtype ==
    SetFields(PyList_New(2), << <<0, "t", "u64">>, <<1, "source", "u8">> >>)

\* `match trigger.source()`
TriggerSourceByte(trigger) ==
    LET source == TriggerSource(trigger.source)
    IN  CASE source = "TimestampReset" -> Ok(0)
          [] source = "ExternalSignalRisingEdge" -> Ok(1)
          [] source = "ExternalSignalFallingEdge" -> Ok(2)
          [] source = "ExternalSignalPulse" -> Ok(3)
          [] source = "ExternalGeneratorRisingEdge" -> Ok(4)
          [] source = "ExternalGeneratorFallingEdge" -> Ok(5)
          [] source = "FrameBegin" -> Ok(6)
          [] source = "FrameEnd" -> Ok(7)
          [] source = "ExposureBegin" -> Ok(8)
          [] source = "ExposureEnd" -> Ok(9)
          [] OTHER -> Err("UnknownTriggerSource")

\* `for trigger in triggers`, index counting the cells: t is written before
\* the source is matched
RECURSIVE TriggersLoop(_, _, _)
TriggersLoop(triggers, index, cells) ==
    IF index >= Len(triggers) THEN {Ok(cells)}
    ELSE LET trigger == triggers[index + 1]
             address == index * ItemSize(TriggersDtype.list)
             source == TriggerSourceByte(trigger)
         IN  UNION { IF ~timed.ok THEN {timed}
                     ELSE IF ~source.ok THEN {Err(source.error)}
                     ELSE UNION { IF cell.ok
                                  THEN TriggersLoop(triggers, index + 1,
                                         Append(cells, cell.value))
                                  ELSE {cell} :
                                  cell \in WriteCell(timed.value, address, 8, "u8",
                                                     source.value) } :
                     timed \in WriteCell(NewCell(TriggersDtype.list), address, 0, "u64",
                                         I64AsU64(trigger.t)) }

\* NextTriggers taking an absent elements field for an empty batch
NextTriggersAbsentAsEmpty(packet) ==
    LET root == size_prefixed_root(packet.buffer)
    IN  IF ~root.ok THEN {PyErr("MissingPacketSizePrefix")}
        ELSE LET triggers == IF root.value.elements.some
                             THEN root.value.elements.value ELSE <<>>
             IN  UNION { IF converted = "crash" THEN {PyCrash}
                         ELSE IF converted # "" THEN {PyPanic(converted)}
                         ELSE {Filled(packet.stream_id, "triggers", TriggersDtype, filled) :
                               filled \in TriggersLoop(triggers, 0, <<>>)} :
                         converted \in DescrConverterOutcomes(TriggersDtype) }

NextTriggers(packet) ==
    LET root == size_prefixed_root(packet.buffer)
    IN  IF ~root.ok THEN {PyErr("MissingPacketSizePrefix")}
        ELSE IF ~root.value.elements.some THEN {PyErr("EmptyEventsPacket")}
        ELSE LET triggers == root.value.elements.value
             IN  UNION { IF converted = "crash" THEN {PyCrash}
                         ELSE IF converted # "" THEN {PyPanic(converted)}
                         ELSE {Filled(packet.stream_id, "triggers", TriggersDtype, filled) :
                               filled \in TriggersLoop(triggers, 0, <<>>)} :
                         converted \in DescrConverterOutcomes(TriggersDtype) }

(***************************************************************************)
(* The inner aedat decoder (mod decoder, from the spec): the registry, the  *)
(* packets it frames, and the cursor behind decoder.next().                *)
(***************************************************************************)
\* id -> Stream; one stream of each content kind
Registry(w, h) ==
    [id \in 0..3 |->
        CASE id = 0 -> [content |-> "Events", width |-> w, height |-> h]
          [] id = 1 -> [content |-> "Frame", width |-> w, height |-> h]
          [] id = 2 -> [content |-> "Imus", width |-> 0, height |-> 0]
          [] id = 3 -> [content |-> "Triggers", width |-> 0, height |-> 0]]

Registries == {Registry(g[1], g[2]) : g \in Geometries}

Tables(content) ==
    CASE content = "Events" -> EventsTables
      [] content = "Frame" -> FrameTables
      [] content = "Imus" -> ImusTables
      [] content = "Triggers" -> TriggersTables

GoodPrefix == [header_bytes |-> 4, declared |-> 1, available |-> 1]
NoTable == [elements |-> None]

\* the buffers a block of a stream may hold: a complete size-prefixed table,
\* or bytes that cannot be read as one
Buffers(content) ==
    {[prefix |-> GoodPrefix, table |-> table] : table \in Tables(content)}
    \cup {[prefix |-> prefix, table |-> NoTable] : prefix \in SizePrefixes \ {GoodPrefix}}

Packets(registry) ==
    UNION { {[stream_id |-> id, stream |-> registry[id], buffer |-> buffer] :
                buffer \in Buffers(registry[id].content)} : id \in DOMAIN registry }

NoInnerPacket == [stream_id |-> -1, stream |-> <<>>, buffer |-> <<>>]
ReturnedSome(packet) == [tag |-> "Some", error |-> "", packet |-> packet]
ReturnedNone == [tag |-> "None", error |-> "", packet |-> NoInnerPacket]
ReturnedErr(error) == [tag |-> "Err", error |-> error, packet |-> NoInnerPacket]
NothingReturned == [tag |-> "", error |-> "", packet |-> NoInnerPacket]

\* decoder.next(): what it may return from a cursor, and the cursor after.
\* The file's content is revealed as it is read: up to MaxBlocks blocks, then
\* a clean end of file or a truncated block.
DecoderNext(cursor, at, packets) ==
    CASE cursor = "exhausted" ->
           {[returned |-> ReturnedNone, state |-> cursor, position |-> at]}
      [] cursor = "failed" ->
           {[returned |-> ReturnedErr("MissingPacketSizePrefix"),
             state |-> cursor, position |-> at]}
      [] cursor = "ready" ->
           {[returned |-> ReturnedSome(packet), state |-> "ready", position |-> at + 1] :
                packet \in IF at < MaxBlocks THEN packets ELSE {}}
           \cup {[returned |-> ReturnedNone, state |-> "exhausted", position |-> at],
                 [returned |-> ReturnedErr("MissingPacketSizePrefix"),
                  state |-> "failed", position |-> at]}

(***************************************************************************)
(* aedat Decoder::__next__ (src/src/aedat/mod.rs 69-499).                  *)
(***************************************************************************)
\* the end of the file surfaced as an empty packet
AedatNextOnNoneAsPacket == {PyPacket(-1, "", <<>>)}

\* `None => return Ok(None)`
AedatNextOnNone == {PyNone}

\* AedatNextOnPacket that labels every packet with stream id 0
AedatNextOnPacketStreamIdZero(packet) ==
    LET results == CASE packet.stream.content = "Events" -> NextEvents(packet)
                     [] packet.stream.content = "Frame" -> NextFrame(packet)
                     [] packet.stream.content = "Imus" -> NextImus(packet)
                     [] packet.stream.content = "Triggers" -> NextTriggers(packet)
    IN  { IF r.kind = "packet" THEN PyPacket(0, r.packet.key, r.packet.value) ELSE r :
          r \in results }

\* `match packet.stream.content`
AedatNextOnPacket(packet) ==
    CASE packet.stream.content = "Events" -> NextEvents(packet)
      [] packet.stream.content = "Frame" -> NextFrame(packet)
      [] packet.stream.content = "Imus" -> NextImus(packet)
      [] packet.stream.content = "Triggers" -> NextTriggers(packet)

\* AedatNextResults of a decoder that keeps returning its first error
AedatNextResultsFailedIsTerminal(decoder_returned) ==
    IF result.kind = "error" THEN {result}
    ELSE CASE decoder_returned.tag = "None" -> AedatNextOnNone
           [] decoder_returned.tag = "Err" -> {PyErr(decoder_returned.error)}
           [] decoder_returned.tag = "Some" -> AedatNextOnPacket(decoder_returned.packet)

\* the possible values of __next__ given what shell.decoder.next() returned
AedatNextResults(decoder_returned) ==
    CASE decoder_returned.tag = "None" -> AedatNextOnNone
      [] decoder_returned.tag = "Err" -> {PyErr(decoder_returned.error)}
      [] decoder_returned.tag = "Some" -> AedatNextOnPacket(decoder_returned.packet)

Min(a, b) == IF a < b THEN a ELSE b

\* history kept for the properties
History(new_result) ==
    /\ nones' = IF new_result.kind = "none" THEN Min(nones + 1, 2) ELSE nones
    /\ error_seen' = (error_seen \/ result.kind = "error")

\* AedatNext whose decoder skips one more block after a rejected packet
AedatNextSkippingBlock ==
    /\ module = "aedat"
    /\ construction.object
    /\ \E o \in DecoderNext(state, position, Packets(id_to_stream)) :
         /\ returned' = o.returned
         /\ state' = o.state
         /\ \E r \in AedatNextResults(o.returned) :
              /\ result' = r
              /\ History(r)
              /\ position' = IF o.returned.tag = "Some" /\ r.kind = "error"
                             THEN o.position + 1 ELSE o.position
    /\ UNCHANGED <<module, id_to_stream, event_stream_type, width, height,
                   construction, python_value, objects, calls, borrow_error>>

AedatNext ==
    /\ module = "aedat"
    /\ construction.object
    /\ \E o \in DecoderNext(state, position, Packets(id_to_stream)) :
         /\ returned' = o.returned
         /\ state' = o.state
         /\ position' = o.position
         /\ \E r \in AedatNextResults(o.returned) :
              /\ result' = r
              /\ History(r)
    /\ UNCHANGED <<module, id_to_stream, event_stream_type, width, height,
                   construction, python_value, objects, calls, borrow_error>>

(***************************************************************************)
(* aedat Decoder::id_to_stream (src/src/aedat/mod.rs 42-63).               *)
(***************************************************************************)
\* python_id_to_stream without the height of the streams
python_id_to_streamWithoutHeight(registry) ==
    [id \in DOMAIN registry |->
        CASE registry[id].content = "Events" ->
               [type |-> "events", width |-> registry[id].width]
          [] registry[id].content = "Frame" ->
               [type |-> "frame", width |-> registry[id].width]
          [] registry[id].content = "Imus" -> [type |-> "imus"]
          [] registry[id].content = "Triggers" -> [type |-> "triggers"]]

\* the dict built by `for (id, stream) in self.decoder.id_to_stream.iter()`
python_id_to_stream(registry) ==
    [id \in DOMAIN registry |->
        CASE registry[id].content = "Events" ->
               [type |-> "events", width |-> registry[id].width,
                height |-> registry[id].height]
          [] registry[id].content = "Frame" ->
               [type |-> "frame", width |-> registry[id].width,
                height |-> registry[id].height]
          [] registry[id].content = "Imus" -> [type |-> "imus"]
          [] registry[id].content = "Triggers" -> [type |-> "triggers"]]

AedatIdToStream ==
    /\ module = "aedat"
    /\ construction.object
    /\ python_value' = [method |-> "id_to_stream",
                        value |-> python_id_to_stream(id_to_stream)]
    /\ UNCHANGED <<module, id_to_stream, event_stream_type, width, height,
                   state, position, returned, result, nones, error_seen,
                   construction, objects, calls, borrow_error>>

(***************************************************************************)
(* The inner event_stream decoder (mod decoder, from the spec).             *)
(***************************************************************************)
Types == {"Generic", "Dvs", "Atis", "Color"}

\* the geometry event_stream files are opened with
EventStreamWidth == 4
EventStreamHeight == 5

GenericEvents == {[t |-> 10, bytes |-> <<1, 2>>], [t |-> 20, bytes |-> <<>>],
                  [t |-> 5, bytes |-> <<3>>]}
DvsEvents == {[t |-> 10, x |-> 1, y |-> 2, polarity |-> "On"],
              [t |-> 20, x |-> 3, y |-> 4, polarity |-> "Off"],
              [t |-> 5, x |-> 0, y |-> 0, polarity |-> "On"]}
AtisEvents == {[t |-> 10, x |-> 1, y |-> 2, polarity |-> "Off"],
               [t |-> 20, x |-> 3, y |-> 4, polarity |-> "On"],
               [t |-> 5, x |-> 0, y |-> 0, polarity |-> "ExposureStart"],
               [t |-> 5, x |-> 2, y |-> 1, polarity |-> "ExposureEnd"]}
ColorEvents == {[t |-> 10, x |-> 1, y |-> 2, r |-> 255, g |-> 0, b |-> 7],
                [t |-> 20, x |-> 3, y |-> 4, r |-> 1, g |-> 2, b |-> 3],
                [t |-> 5, x |-> 0, y |-> 0, r |-> 0, g |-> 128, b |-> 0]}

EventsOfType(type) ==
    CASE type = "Generic" -> GenericEvents
      [] type = "Dvs" -> DvsEvents
      [] type = "Atis" -> AtisEvents
      [] type = "Color" -> ColorEvents

\* records of a file that lie outside the declared geometry: x = width,
\* y = height
OutOfBounds(type) ==
    CASE type = "Generic" -> {}
      [] type = "Dvs" ->
           {[t |-> 30, x |-> EventStreamWidth, y |-> 0, polarity |-> "On"],
            [t |-> 30, x |-> 0, y |-> EventStreamHeight, polarity |-> "Off"]}
      [] type = "Atis" ->
           {[t |-> 30, x |-> EventStreamWidth, y |-> 0, polarity |-> "On"],
            [t |-> 30, x |-> 0, y |-> EventStreamHeight, polarity |-> "ExposureEnd"]}
      [] type = "Color" ->
           {[t |-> 30, x |-> EventStreamWidth, y |-> 0, r |-> 1, g |-> 1, b |-> 1],
            [t |-> 30, x |-> 0, y |-> EventStreamHeight, r |-> 2, g |-> 2, b |-> 2]}

\* the records a file of this type may hold
EventStreamRecords(type) == EventsOfType(type) \cup OutOfBounds(type)

\* decoder::Packet::{Generic, Dvs, Atis, Color}(events), as read from the file
EventStreamPackets(type) ==
    {[variant |-> type, events |-> events] :
        events \in SeqsUpTo(EventStreamRecords(type), MaxEvents)}

\* validation applied inline while each event is produced: the error of the
\* first record outside the declared geometry, "" when there is none
RECURSIVE EventStreamValidate(_, _)
EventStreamValidate(packet, index) ==
    IF packet.variant = "Generic" \/ index >= Len(packet.events) THEN ""
    ELSE LET event == packet.events[index + 1]
         IN  IF event.x >= EventStreamWidth THEN "XOverflow"
             ELSE IF event.y >= EventStreamHeight THEN "YOverflow"
             ELSE EventStreamValidate(packet, index + 1)

\* decoder.next() of the event_stream decoder: a packet that fails the
\* validation is not returned, the call returns its error and the cursor is
\* left at the next packet
EventStreamDecoderNext(cursor, at, type) ==
    { IF o.returned.tag = "Some" /\ EventStreamValidate(o.returned.packet, 0) # ""
      THEN [o EXCEPT !.returned = ReturnedErr(EventStreamValidate(o.returned.packet, 0))]
      ELSE o :
      o \in DecoderNext(cursor, at, EventStreamPackets(type)) }

(***************************************************************************)
(* event_stream Decoder::__next__ (src/src/event_stream/mod.rs 65-387).    *)
(***************************************************************************)
\* the dtype list of each variant: PyList_New(4_isize) and the fields set
EventStreamDtype(variant) ==
    CASE variant = "Generic" ->
           SetFields(PyList_New(4), << <<0, "t", "u64">>, <<1, "bytes", "object">> >>)
      [] variant = "Dvs" ->
           SetFields(PyList_New(4),
                     << <<0, "t", "u64">>, <<1, "x", "u16">>,
                        <<2, "y", "u16">>, <<3, "on", "bool">> >>)
      [] variant = "Atis" ->
           SetFields(PyList_New(4),
                     << <<0, "t", "u64">>, <<1, "x", "u16">>, <<2, "y", "u16">>,
                        <<3, "exposure", "bool">>, <<4, "polarity", "bool">> >>)
      [] variant = "Color" ->
           SetFields(PyList_New(4),
                     << <<0, "t", "u64">>, <<1, "x", "u16">>, <<2, "y", "u16">>,
                        <<3, "r", "u8">>, <<4, "g", "u8">>, <<5, "b", "u8">> >>)

\* `event.polarity as u8`
DvsPolarityAsU8(polarity) == IF polarity = "On" THEN 1 ELSE 0

\* `match event.polarity`: the bytes written at offsets 12 and 13
AtisPolarityBytes(polarity) ==
    CASE polarity = "Off" -> <<0, 0>>
      [] polarity = "On" -> <<0, 1>>
      [] polarity = "ExposureStart" -> <<1, 0>>
      [] polarity = "ExposureEnd" -> <<1, 1>>

\* EventStreamWrites with x written at the offset of y and y at that of x
EventStreamWritesXYSwapped(variant, event) ==
    CASE variant = "Generic" ->
           << <<0, "u64", event.t>>, <<8, "object", event.bytes>> >>
      [] variant = "Dvs" ->
           << <<0, "u64", event.t>>, <<10, "u16", event.x>>, <<8, "u16", event.y>>,
              <<12, "u8", DvsPolarityAsU8(event.polarity)>> >>
      [] variant = "Atis" ->
           << <<0, "u64", event.t>>, <<10, "u16", event.x>>, <<8, "u16", event.y>>,
              <<12, "u8", AtisPolarityBytes(event.polarity)[1]>>,
              <<13, "u8", AtisPolarityBytes(event.polarity)[2]>> >>
      [] variant = "Color" ->
           << <<0, "u64", event.t>>, <<10, "u16", event.x>>, <<8, "u16", event.y>>,
              <<12, "u8", event.r>>, <<13, "u8", event.g>>, <<14, "u8", event.b>> >>

\* the writes of one event into its cell
EventStreamWrites(variant, event) ==
    CASE variant = "Generic" ->
           << <<0, "u64", event.t>>, <<8, "object", event.bytes>> >>
      [] variant = "Dvs" ->
           << <<0, "u64", event.t>>, <<8, "u16", event.x>>, <<10, "u16", event.y>>,
              <<12, "u8", DvsPolarityAsU8(event.polarity)>> >>
      [] variant = "Atis" ->
           << <<0, "u64", event.t>>, <<8, "u16", event.x>>, <<10, "u16", event.y>>,
              <<12, "u8", AtisPolarityBytes(event.polarity)[1]>>,
              <<13, "u8", AtisPolarityBytes(event.polarity)[2]>> >>
      [] variant = "Color" ->
           << <<0, "u64", event.t>>, <<8, "u16", event.x>>, <<10, "u16", event.y>>,
              <<12, "u8", event.r>>, <<13, "u8", event.g>>, <<14, "u8", event.b>> >>

\* `for mut index in 0_isize..length`
RECURSIVE EventStreamLoop(_, _, _, _)
EventStreamLoop(variant, events, index, cells) ==
    IF index >= Len(events) THEN {Ok(cells)}
    ELSE UNION { IF cell.ok
                 THEN EventStreamLoop(variant, events, index + 1,
                                      Append(cells, cell.value))
                 ELSE {cell} :
                 cell \in WriteAll(NewCell(EventStreamDtype(variant).list),
                                   index * ItemSize(EventStreamDtype(variant).list),
                                   EventStreamWrites(variant, events[index + 1])) }

\* `match packet`; the packet of this decoder has no "stream_id" item
EventStreamNextOnPacket(packet) ==
    LET dtype_as_list == EventStreamDtype(packet.variant)
    IN  UNION { IF converted = "crash" THEN {PyCrash}
                ELSE IF converted # "" THEN {PyPanic(converted)}
                ELSE {Filled(-1, "events", dtype_as_list, filled) :
                      filled \in EventStreamLoop(packet.variant, packet.events, 0, <<>>)} :
                converted \in DescrConverterOutcomes(dtype_as_list) }

\* the possible values of __next__ given what shell.decoder.next() returned
EventStreamNextResults(decoder_returned) ==
    CASE decoder_returned.tag = "None" -> {PyNone}
      [] decoder_returned.tag = "Err" -> {PyErr(decoder_returned.error)}
      [] decoder_returned.tag = "Some" -> EventStreamNextOnPacket(decoder_returned.packet)

EventStreamNext ==
    /\ module = "event_stream"
    /\ construction.object
    /\ \E o \in EventStreamDecoderNext(state, position, event_stream_type) :
         /\ returned' = o.returned
         /\ state' = o.state
         /\ position' = o.position
         /\ \E r \in EventStreamNextResults(o.returned) :
              /\ result' = r
              /\ History(r)
    /\ UNCHANGED <<module, id_to_stream, event_stream_type, width, height,
                   construction, python_value, objects, calls, borrow_error>>

(***************************************************************************)
(* event_stream Decoder getters (src/src/event_stream/mod.rs 40-59).       *)
(***************************************************************************)
\* a getter that answers "generic" for every type
EventStreamTypeStringAlwaysGeneric(type) == "generic"

\* `match self.decoder.event_stream_type`
EventStreamTypeString(type) ==
    CASE type = "Generic" -> "generic"
      [] type = "Dvs" -> "dvs"
      [] type = "Atis" -> "atis"
      [] type = "Color" -> "color"

\* #[getter] event_stream_type
EventStreamTypeGetter ==
    /\ module = "event_stream"
    /\ construction.object
    /\ python_value' = [method |-> "event_stream_type",
                        value |-> EventStreamTypeString(event_stream_type)]
    /\ UNCHANGED <<module, id_to_stream, event_stream_type, width, height,
                   state, position, returned, result, nones, error_seen,
                   construction, objects, calls, borrow_error>>

\* #[getter] width
EventStreamWidthGetter ==
    /\ module = "event_stream"
    /\ construction.object
    /\ python_value' = [method |-> "width", value |-> width]
    /\ UNCHANGED <<module, id_to_stream, event_stream_type, width, height,
                   state, position, returned, result, nones, error_seen,
                   construction, objects, calls, borrow_error>>

\* #[getter] height
EventStreamHeightGetter ==
    /\ module = "event_stream"
    /\ construction.object
    /\ python_value' = [method |-> "height", value |-> height]
    /\ UNCHANGED <<module, id_to_stream, event_stream_type, width, height,
                   state, position, returned, result, nones, error_seen,
                   construction, objects, calls, borrow_error>>

(***************************************************************************)
(* The package (src/src/lib.rs 10-33): the class added to each submodule.  *)
(***************************************************************************)
\* `submodule.add_class::<aedat::Decoder>()` in each of the four blocks
faery ==
    [submodule \in {"aedat", "dat", "event_stream", "raw"} |->
        CASE submodule = "aedat" -> "aedat::Decoder"
          [] submodule = "dat" -> "aedat::Decoder"
          [] submodule = "event_stream" -> "aedat::Decoder"
          [] submodule = "raw" -> "aedat::Decoder"]

\* #[pymethods] impl Decoder of src/src/aedat/mod.rs
AedatMethods == {"new", "id_to_stream", "__iter__", "__next__"}

\* #[pymethods] impl Decoder of src/src/event_stream/mod.rs
EventStreamMethods ==
    {"new", "event_stream_type", "width", "height", "__iter__", "__next__"}

\* what a caller finds on a class of the package
Methods(class) ==
    CASE class = "aedat::Decoder" -> AedatMethods
      [] class = "event_stream::Decoder" -> EventStreamMethods
      [] OTHER -> {}

(***************************************************************************)
(* Construction and the specification.                                     *)
(***************************************************************************)
NoRegistry == <<>>

\* Texts and bytes are sequences of numbers: a str is the sequence of its
\* code points, a bytes the sequence of its byte values (0..255).
\* the text "recording"
Recording == <<114, 101, 99, 111, 114, 100, 105, 110, 103>>
\* the text "damaged"
Damaged == <<100, 97, 109, 97, 103, 101, 100>>
\* the text "absent"
Absent == <<97, 98, 115, 101, 110, 116>>

\* the objects a caller may pass as path: a str, a bytes, an object whose
\* __fspath__() returns a str, a bytes or an int, an object without
\* __fspath__. The bytes are the name recording, a name with a quote (it's),
\* with a backslash and both quotes (\'"), with a newline, a backtick and a
\* delete byte (LF ` DEL), with a control byte and a byte above 127
\* (0x01 0xe9). One str holds a lone surrogate (a U+DC80, as os.fsdecode
\* gives for a file name that is not UTF-8), one a letter above 127 (U+00E9).
PathObjects ==
    { [type |-> "str", content |-> Recording, fspath |-> "none"],
      [type |-> "str", content |-> Damaged, fspath |-> "none"],
      [type |-> "str", content |-> Absent, fspath |-> "none"],
      [type |-> "str", content |-> <<97, 56448>>, fspath |-> "none"],
      [type |-> "str", content |-> <<233>>, fspath |-> "none"],
      [type |-> "bytes", content |-> Recording, fspath |-> "none"],
      [type |-> "bytes", content |-> <<105, 116, 39, 115>>, fspath |-> "none"],
      [type |-> "bytes", content |-> <<92, 39, 34>>, fspath |-> "none"],
      [type |-> "bytes", content |-> <<10, 96, 127>>, fspath |-> "none"],
      [type |-> "bytes", content |-> <<1, 233>>, fspath |-> "none"],
      [type |-> "object", content |-> Recording, fspath |-> "str"],
      [type |-> "object", content |-> Recording, fspath |-> "bytes"],
      [type |-> "object", content |-> <<56448, 97>>, fspath |-> "str"],
      [type |-> "object", content |-> <<>>, fspath |-> "int"],
      [type |-> "object", content |-> <<>>, fspath |-> "none"] }

\* whether the byte c occurs in the bytes
Contains(bytes, c) == \E i \in 1..Len(bytes) : bytes[i] = c

\* the quote Python's repr puts around the bytes: a double quote (34) when
\* the bytes hold a single quote (39) and no double quote, a single quote
\* otherwise
BytesQuote(bytes) ==
    IF Contains(bytes, 39) /\ ~Contains(bytes, 34) THEN 34 ELSE 39

\* a hexadecimal digit in lower case: 0-9 (48..57), a-f (97..102)
HexDigit(digit) == IF digit < 10 THEN 48 + digit ELSE 87 + digit

\* one byte in the repr: the quote and the backslash (92) get a backslash;
\* tab, newline and carriage return become \t, \n and \r; every other byte
\* below the space (32) or from 127 up becomes \xNN (120 is x); a printable
\* ASCII byte stands for itself
EscapedByte(c, quote) ==
    IF c = quote \/ c = 92 THEN <<92, c>>
    ELSE IF c = 9 THEN <<92, 116>>
    ELSE IF c = 10 THEN <<92, 110>>
    ELSE IF c = 13 THEN <<92, 114>>
    ELSE IF c < 32 \/ c >= 127
         THEN <<92, 120, HexDigit(c \div 16), HexDigit(c % 16)>>
    ELSE <<c>>

RECURSIVE EscapedBytes(_, _)
EscapedBytes(bytes, quote) ==
    IF bytes = <<>> THEN <<>>
    ELSE EscapedByte(Head(bytes), quote) \o EscapedBytes(Tail(bytes), quote)

\* PyBytes::to_string(): the str() of a bytes object, which is its repr:
\* b (98), the quote, the escaped bytes, the quote
BytesToString(bytes) ==
    <<98, BytesQuote(bytes)>> \o EscapedBytes(bytes, BytesQuote(bytes))
        \o <<BytesQuote(bytes)>>

\* a code point that a Rust String cannot hold (U+D800..U+DFFF)
IsSurrogate(c) == c >= 55296 /\ c <= 57343

\* PyString::to_string(): the text as a Rust String, through
\* to_string_lossy. A str without surrogates is copied; a surrogate is
\* encoded on three bytes (surrogatepass), none of which is valid UTF-8 where
\* it stands, and from_utf8_lossy puts U+FFFD (65533) for each of the three
RECURSIVE StringToString(_)
StringToString(text) ==
    IF text = <<>> THEN <<>>
    ELSE (IF IsSurrogate(Head(text)) THEN <<65533, 65533, 65533>> ELSE <<Head(text)>>)
         \o StringToString(Tail(text))

\* utilities::python_path_to_string(python, path)
python_path_to_string(path) ==
    IF path.type = "str" THEN Ok(StringToString(path.content))
    ELSE IF path.type = "bytes" THEN Ok(BytesToString(path.content))
    ELSE IF path.fspath = "none" THEN Err("AttributeError")
    ELSE IF path.fspath = "str" THEN Ok(StringToString(path.content))
    ELSE IF path.fspath = "bytes" THEN Ok(BytesToString(path.content))
    ELSE Err("TypeError")

\* decoder::Decoder::new(path) (from the spec): the file "recording" has a
\* header that parses to `header`, the file "damaged" has a malformed header,
\* there is no other file
OpenFile(path, header) ==
    IF path = Recording THEN Ok(header)
    ELSE IF path = Damaged THEN Err("HeaderError")
    ELSE Err("NoSuchFile")

\* what the header of an event_stream file parses to
EventStreamHeader(type) ==
    [event_stream_type |-> type,
     width |-> IF type = "Generic" THEN None ELSE Some(EventStreamWidth),
     height |-> IF type = "Generic" THEN None ELSE Some(EventStreamHeight)]

NotConstructed ==
    [called |-> FALSE, path_ok |-> FALSE, header_ok |-> FALSE, object |-> FALSE]
Constructed ==
    [called |-> TRUE, path_ok |-> TRUE, header_ok |-> TRUE, object |-> TRUE]

\* what Decoder::new was given: did the path convert, did the header parse
Given(path, header) ==
    [path_ok |-> python_path_to_string(path).ok,
     header_ok |-> /\ python_path_to_string(path).ok
                   /\ OpenFile(python_path_to_string(path).value, header).ok]

\* DecoderNew that builds a Decoder whatever decoder::Decoder::new returned
DecoderNewDespiteError(path, header) ==
    LET converted == python_path_to_string(path)
    IN  IF converted.ok THEN Ok(header) ELSE Err(converted.error)

\* the body of Decoder::new, the same in aedat/mod.rs and event_stream/mod.rs:
\* Ok(Decoder { decoder }) or the error of the step that failed
DecoderNew(path, header) ==
    LET converted == python_path_to_string(path)
    IN  IF converted.ok
        THEN LET opened == OpenFile(converted.value, header)
             IN  IF opened.ok THEN Ok(opened.value) ELSE Err(opened.error)
        ELSE Err(converted.error)

\* aedat Decoder::new(path) (src/src/aedat/mod.rs 29-40)
AedatNewCall ==
    /\ module = "aedat"
    /\ ~construction.called
    /\ \E path \in PathObjects, header \in Registries :
         LET new == DecoderNew(path, header)
         IN  /\ construction' = [called |-> TRUE,
                                 path_ok |-> Given(path, header).path_ok,
                                 header_ok |-> Given(path, header).header_ok,
                                 object |-> new.ok]
             /\ IF new.ok
                THEN /\ id_to_stream' = new.value
                     /\ state' = "ready"
                     /\ result' = result
                ELSE /\ result' = PyErr(new.error)
                     /\ UNCHANGED <<id_to_stream, state>>
    /\ UNCHANGED <<module, event_stream_type, width, height, position, returned,
                   nones, error_seen, python_value, objects, calls, borrow_error>>

\* event_stream Decoder::new(path) (src/src/event_stream/mod.rs 27-38)
EventStreamNewCall ==
    /\ module = "event_stream"
    /\ ~construction.called
    /\ \E path \in PathObjects, type \in Types :
         LET new == DecoderNew(path, EventStreamHeader(type))
         IN  /\ construction' = [called |-> TRUE,
                                 path_ok |-> Given(path, EventStreamHeader(type)).path_ok,
                                 header_ok |-> Given(path, EventStreamHeader(type)).header_ok,
                                 object |-> new.ok]
             /\ IF new.ok
                THEN /\ event_stream_type' = new.value.event_stream_type
                     /\ width' = new.value.width
                     /\ height' = new.value.height
                     /\ state' = "ready"
                     /\ result' = result
                ELSE /\ result' = PyErr(new.error)
                     /\ UNCHANGED <<event_stream_type, width, height, state>>
    /\ UNCHANGED <<module, id_to_stream, position, returned,
                   nones, error_seen, python_value, objects, calls, borrow_error>>

\* before any id_to_stream() or getter call
NoValue == [method |-> "", value |-> <<>>]

(***************************************************************************)
(* __next__ at the grain of the borrow of `shell: PyRefMut<Self>`          *)
(* (src/src/aedat/mod.rs 22-25, 65-76): several Decoder objects, several   *)
(* callers, and a call in three steps: the borrow, decoder.next(), and the *)
(* return that drops the borrow.                                           *)
(***************************************************************************)
Instances == 1..MaxInstances
Callers == 1..MaxCallers

\* the registry of the file each instance was opened on
InstanceRegistry(i) == Registry(2, 1 + i)

\* #[pyclass] Decoder { decoder } in its cell: the borrow flag of the cell
\* and the decoder the object owns
PyCell(registry) ==
    [borrow_flag |-> "UNUSED", state |-> "ready", position |-> 0,
     id_to_stream |-> registry]

Idle == [pc |-> "idle", instance |-> 0]

\* a borrow that does not look at the flag
try_borrow_mutUnchecked(cell) ==
    Ok([cell EXCEPT !.borrow_flag = "HAS_MUTABLE_BORROW"])

\* the extraction of `shell: PyRefMut<Self>`: the exclusive borrow, or
\* PyBorrowMutError when the cell is borrowed
try_borrow_mut(cell) ==
    IF cell.borrow_flag = "UNUSED"
    THEN Ok([cell EXCEPT !.borrow_flag = "HAS_MUTABLE_BORROW"])
    ELSE Err("PyBorrowMutError")

\* the variables of the single decoder, left alone at this grain
DecoderUnchanged ==
    UNCHANGED <<module, id_to_stream, event_stream_type, width, height,
                state, position, returned, result, nones, error_seen,
                construction, python_value>>

\* a caller enters __next__ of an instance and gets the borrow
NextBorrow(c, i) ==
    /\ calls[c].pc = "idle"
    /\ try_borrow_mut(objects[i]).ok
    /\ objects' = [objects EXCEPT ![i] = try_borrow_mut(objects[i]).value]
    /\ calls' = [calls EXCEPT ![c] = [pc |-> "borrowed", instance |-> i]]
    /\ UNCHANGED borrow_error
    /\ DecoderUnchanged

\* a caller enters __next__ of an instance that is borrowed: the call raises
\* before its body runs
NextRefused(c, i) ==
    /\ calls[c].pc = "idle"
    /\ ~try_borrow_mut(objects[i]).ok
    /\ borrow_error' = TRUE
    /\ UNCHANGED <<objects, calls>>
    /\ DecoderUnchanged

\* `shell.decoder.next()` of the call in progress; the packet and its
\* conversion change nothing of the decoder
NextDecode(c) ==
    /\ calls[c].pc = "borrowed"
    /\ LET i == calls[c].instance
       IN  \E o \in DecoderNext(objects[i].state, objects[i].position, {NoInnerPacket}) :
             objects' = [objects EXCEPT ![i].state = o.state, ![i].position = o.position]
    /\ calls' = [calls EXCEPT ![c].pc = "decoded"]
    /\ UNCHANGED borrow_error
    /\ DecoderUnchanged

\* the call returns and `shell` is dropped
NextReturn(c) ==
    /\ calls[c].pc = "decoded"
    /\ objects' = [objects EXCEPT ![calls[c].instance].borrow_flag = "UNUSED"]
    /\ calls' = [calls EXCEPT ![c] = Idle]
    /\ UNCHANGED borrow_error
    /\ DecoderUnchanged

\* aedat Decoder::new (src/src/aedat/mod.rs 30-40), once it returned Ok
AedatNew ==
    /\ module = "aedat"
    /\ id_to_stream \in Registries
    /\ event_stream_type = ""
    /\ width = None
    /\ height = None

\* event_stream Decoder::new (src/src/event_stream/mod.rs 28-38), once it returned Ok
EventStreamNew ==
    /\ module = "event_stream"
    /\ id_to_stream = NoRegistry
    /\ event_stream_type \in Types
    /\ width = IF event_stream_type = "Generic" THEN None ELSE Some(EventStreamWidth)
    /\ height = IF event_stream_type = "Generic" THEN None ELSE Some(EventStreamHeight)

Init ==
    /\ AedatNew \/ EventStreamNew
    /\ state = "ready"
    /\ position = 0
    /\ returned = NothingReturned
    /\ result = NotCalled
    /\ nones = 0
    /\ error_seen = FALSE
    /\ construction = Constructed
    /\ python_value = NoValue
    /\ objects = [i \in Instances |-> PyCell(InstanceRegistry(i))]
    /\ calls = [c \in Callers |-> Idle]
    /\ borrow_error = FALSE

Next ==
    \/ AedatNext
    \/ AedatIdToStream
    \/ EventStreamNext
    \/ EventStreamTypeGetter
    \/ EventStreamWidthGetter
    \/ EventStreamHeightGetter

Spec == Init /\ [][Next]_vars

\* before Decoder::new is called: no object, no registry, no cursor
InitNew ==
    /\ module \in {"aedat", "event_stream"}
    /\ id_to_stream = NoRegistry
    /\ event_stream_type = ""
    /\ width = None
    /\ height = None
    /\ state = "initializing"
    /\ position = 0
    /\ returned = NothingReturned
    /\ result = NotCalled
    /\ nones = 0
    /\ error_seen = FALSE
    /\ construction = NotConstructed
    /\ python_value = NoValue
    /\ objects = [i \in Instances |-> PyCell(InstanceRegistry(i))]
    /\ calls = [c \in Callers |-> Idle]
    /\ borrow_error = FALSE

NextNew == AedatNewCall \/ EventStreamNewCall \/ Next

SpecNew == InitNew /\ [][NextNew]_vars

\* the aedat decoders of `objects`, just constructed; the first is the decoder
\* of the other variables, which stay as they are at this grain
InitBorrow ==
    /\ Init
    /\ module = "aedat"
    /\ id_to_stream = objects[1].id_to_stream

NextBorrowGrain ==
    \/ \E c \in Callers, i \in Instances : NextBorrow(c, i)
    \/ \E c \in Callers, i \in Instances : NextRefused(c, i)
    \/ \E c \in Callers : NextDecode(c)
    \/ \E c \in Callers : NextReturn(c)

SpecBorrow == InitBorrow /\ [][NextBorrowGrain]_vars

(***************************************************************************)
(* Properties.                                                             *)
(***************************************************************************)
\* the last decoder.next() of the aedat decoder returned a packet of a
\* stream of this content kind
AedatReturned(content) ==
    /\ module = "aedat"
    /\ returned.tag = "Some"
    /\ returned.packet.stream.content = content

\* its buffer is a complete size-prefixed table
CompleteTable ==
    /\ returned.packet.buffer.prefix.header_bytes = 4
    /\ returned.packet.buffer.prefix.declared <= returned.packet.buffer.prefix.available

LastTable == returned.packet.buffer.table
LastStream == returned.packet.stream

\* the last block holds a table of this kind with its elements present
AedatElements(content) ==
    /\ AedatReturned(content)
    /\ CompleteTable
    /\ LastTable.elements.some

InBounds(event, stream) ==
    /\ 0 <= event.x /\ event.x < stream.width
    /\ 0 <= event.y /\ event.y < stream.height

\* C1 as stated: an aedat Events packet is returned only if every event is
\* within the stream's width and height; a packet with an event out of
\* bounds makes __next__ return XOverflow or YOverflow and no packet,
\* whatever precedes the offending event.
C1_EventsInBoundsOrOverflow ==
    AedatElements("Events") =>
        LET events == LastTable.elements.value
            all_in == \A i \in 1..Len(events) : InBounds(events[i], LastStream)
        IN  /\ result.kind = "packet" => all_in
            /\ ~all_in => /\ result.kind = "error"
                          /\ result.error \in {"XOverflow", "YOverflow"}
                          /\ result.packet = NoPacket

\* C2: once next() has returned None, every later call returns None and
\* leaves the cursor where it is: __next__ returns None whenever the inner
\* decoder does, and after a None every call returns None again without
\* moving the position.
C2_ExhaustionIsIdempotent ==
    /\ [](returned.tag = "None" => result.kind = "none")
    /\ [][result.kind = "none" =>
            /\ result'.kind = "none"
            /\ position' = position
            /\ state' = state]_vars

\* C2 witness: None has been returned twice, after a block was read
C2_Witness ==
    /\ nones = 2
    /\ position > 0
    /\ result.kind = "none"

OutcomesOf(packet) ==
    IF module = "aedat" THEN AedatNextOnPacket(packet)
    ELSE EventStreamNextOnPacket(packet)

C4_MissingSizePrefix ==
    /\ \A content \in StreamContents :
          (AedatReturned(content) /\ ~CompleteTable)
              => result = PyErr("MissingPacketSizePrefix")
    /\ (module = "aedat" /\ returned.tag = "Err") => result = PyErr(returned.error)

\* C4 witness: an Imus block whose declared length exceeds the bytes present
C4_Witness ==
    /\ AedatReturned("Imus")
    /\ returned.packet.buffer.prefix.header_bytes = 4
    /\ returned.packet.buffer.prefix.declared > returned.packet.buffer.prefix.available
    /\ result.kind = "error"

Channels(format) ==
    CASE format = 0 -> 1
      [] format = 1 -> 3
      [] format = 2 -> 4

\* C5: a frame without pixels and with a known format is returned with a
\* pixel buffer of width * height * channels bytes, all zero.
C5_AbsentPixelsZeroFilled ==
    (/\ AedatReturned("Frame")
     /\ CompleteTable
     /\ LastTable.format \in {0, 1, 2}
     /\ ~LastTable.pixels.some)
    => /\ result.kind = "packet"
       /\ Len(result.packet.value.pixels.data)
              = LastTable.width * LastTable.height * Channels(LastTable.format)
       /\ \A i \in 1..Len(result.packet.value.pixels.data) :
              result.packet.value.pixels.data[i] = 0

\* C5 witness: a Bgra frame of two pixels without pixel buffer was returned
C5_Witness ==
    /\ AedatReturned("Frame")
    /\ CompleteTable
    /\ LastTable.format = 2
    /\ ~LastTable.pixels.some
    /\ LastTable.width * LastTable.height = 2
    /\ result.kind = "packet"

\* C6: for a returned Bgr or Bgra frame whose pixels were on disk, the decoded
\* buffer is the on-disk buffer with byte 0 and byte 2 of every pixel
\* exchanged; the other bytes are where they were.
C6_RedBlueSwapped ==
    (/\ AedatReturned("Frame")
     /\ CompleteTable
     /\ LastTable.format \in {1, 2}
     /\ LastTable.pixels.some
     /\ result.kind = "packet")
    => LET disk == LastTable.pixels.value
           decoded == result.packet.value.pixels.data
           channels == Channels(LastTable.format)
       IN  /\ Len(decoded) = Len(disk)
           /\ \A pixel \in 0..(LastTable.width * LastTable.height - 1) :
                /\ decoded[pixel * channels + 1] = disk[pixel * channels + 3]
                /\ decoded[pixel * channels + 3] = disk[pixel * channels + 1]
                /\ decoded[pixel * channels + 2] = disk[pixel * channels + 2]
                /\ channels = 4 =>
                      decoded[pixel * channels + 4] = disk[pixel * channels + 4]

\* C6 witness: a Bgra frame of two pixels with its pixels on disk was returned
C6_Witness ==
    /\ AedatReturned("Frame")
    /\ CompleteTable
    /\ LastTable.format = 2
    /\ LastTable.pixels.some
    /\ LastTable.width * LastTable.height = 2
    /\ result.kind = "packet"

\* C7 as stated: a Triggers batch with a source code outside 0..9 at any
\* position makes __next__ fail with UnknownTriggerSource, and no trigger is
\* returned.
C7_UnknownTriggerSource ==
    (/\ AedatElements("Triggers")
     /\ \E i \in 1..Len(LastTable.elements.value) :
            LastTable.elements.value[i].source \notin 0..9)
    => result = PyErr("UnknownTriggerSource")

\* C8: an Events, Imus or Triggers block without elements field makes
\* __next__ fail with EmptyEventsPacket.
C8_AbsentElements ==
    \A content \in {"Events", "Imus", "Triggers"} :
        (AedatReturned(content) /\ CompleteTable /\ ~LastTable.elements.some)
            => result = PyErr("EmptyEventsPacket")

\* C8 witness: a Triggers block without elements was read and the call failed
C8_Witness ==
    /\ AedatReturned("Triggers")
    /\ CompleteTable
    /\ ~LastTable.elements.some
    /\ result.kind = "error"

\* the record the caller should see for one event of an event_stream packet
ExpectedRecord(variant, event) ==
    CASE variant = "Generic" -> [t |-> event.t, bytes |-> event.bytes]
      [] variant = "Dvs" ->
           [t |-> event.t, x |-> event.x, y |-> event.y,
            on |-> IF event.polarity = "On" THEN 1 ELSE 0]
      [] variant = "Atis" ->
           [t |-> event.t, x |-> event.x, y |-> event.y,
            exposure |-> IF event.polarity \in {"ExposureStart", "ExposureEnd"} THEN 1 ELSE 0,
            polarity |-> IF event.polarity \in {"On", "ExposureEnd"} THEN 1 ELSE 0]
      [] variant = "Color" ->
           [t |-> event.t, x |-> event.x, y |-> event.y,
            r |-> event.r, g |-> event.g, b |-> event.b]

\* C9 as stated: every event packet (event_stream Generic, Dvs, Atis, Color,
\* and aedat events) comes back as an array with one record per event, the
\* i-th record carrying the fields of the i-th event, in file order.
C9_RecordsInFileOrder ==
    /\ (module = "event_stream" /\ returned.tag = "Some")
       => /\ result.kind = "packet"
          /\ Len(result.packet.value) = Len(returned.packet.events)
          /\ \A i \in 1..Len(returned.packet.events) :
                result.packet.value[i]
                    = ExpectedRecord(returned.packet.variant, returned.packet.events[i])
    /\ (AedatElements("Events") /\ result.kind = "packet")
       => /\ Len(result.packet.value) = Len(LastTable.elements.value)
          /\ \A i \in 1..Len(LastTable.elements.value) :
                result.packet.value[i]
                    = [t |-> LastTable.elements.value[i].t,
                       x |-> LastTable.elements.value[i].x,
                       y |-> LastTable.elements.value[i].y,
                       on |-> IF LastTable.elements.value[i].on THEN 1 ELSE 0]

\* C10: a frame whose format code is not Gray, Bgr or Bgra makes __next__
\* fail with UnknownFrameFormat; a returned frame has format "L", "RGB" or
\* "RGBA" and 1, 3 or 4 bytes per pixel, for Gray, Bgr and Bgra.
C10_FrameFormat ==
    (AedatReturned("Frame") /\ CompleteTable)
    => /\ LastTable.format \notin {0, 1, 2} => result = PyErr("UnknownFrameFormat")
       /\ (LastTable.format \in {0, 1, 2} /\ result.kind = "packet")
          => /\ result.packet.value.format
                  = (CASE LastTable.format = 0 -> "L"
                       [] LastTable.format = 1 -> "RGB"
                       [] LastTable.format = 2 -> "RGBA")
             /\ Len(result.packet.value.pixels.data)
                  = LastTable.width * LastTable.height * Channels(LastTable.format)
             /\ result.packet.value.pixels.shape
                  = (IF LastTable.format = 0
                     THEN <<LastTable.height, LastTable.width>>
                     ELSE <<LastTable.height, LastTable.width, Channels(LastTable.format)>>)
       /\ (LastTable.format \in {0, 1, 2} /\ result.kind # "packet")
          => /\ LastTable.pixels.some
             /\ Len(LastTable.pixels.value)
                  # LastTable.width * LastTable.height * Channels(LastTable.format)

\* C10 witness: a frame with format code 3 was read and the call failed
C10_Witness ==
    /\ AedatReturned("Frame")
    /\ CompleteTable
    /\ LastTable.format = 3
    /\ result.kind = "error"

\* a block of the aedat decoder that __next__ has to reject
ConversionError(packet) ==
    \/ packet.buffer.prefix.header_bytes # 4
    \/ packet.buffer.prefix.declared > packet.buffer.prefix.available
    \/ /\ packet.stream.content \in {"Events", "Imus", "Triggers"}
       /\ ~packet.buffer.table.elements.some
    \/ /\ packet.stream.content = "Events"
       /\ packet.buffer.table.elements.some
       /\ \E i \in 1..Len(packet.buffer.table.elements.value) :
             ~InBounds(packet.buffer.table.elements.value[i], packet.stream)
    \/ /\ packet.stream.content = "Frame"
       /\ packet.buffer.table.format \notin {0, 1, 2}
    \/ /\ packet.stream.content = "Frame"
       /\ packet.buffer.table.format \in {0, 1, 2}
       /\ packet.buffer.table.pixels.some
       /\ Len(packet.buffer.table.pixels.value)
             # packet.buffer.table.width * packet.buffer.table.height
               * Channels(packet.buffer.table.format)
    \/ /\ packet.stream.content = "Triggers"
       /\ packet.buffer.table.elements.some
       /\ \E i \in 1..Len(packet.buffer.table.elements.value) :
             packet.buffer.table.elements.value[i].source \notin 0..9

\* C11 as stated: __next__ returns None exactly when decoder.next() returned
\* Ok(None); an error of decoder.next() comes back as that error; a block
\* that the conversion has a reason to reject, and a block whose array the
\* conversion cannot build, make the call return an error and no packet. A
\* packet is returned only when decoder.next() returned one.
C11_ErrorsAreReturned ==
    /\ (result.kind = "none") <=> (returned.tag = "None")
    /\ returned.tag = "Err" => result = PyErr(returned.error)
    /\ result.kind = "packet" => returned.tag = "Some"
    /\ (module = "aedat" /\ returned.tag = "Some" /\ ConversionError(returned.packet))
       => /\ result.kind = "error"
          /\ result.packet = NoPacket
    /\ (/\ module = "event_stream"
        /\ returned.tag = "Some"
        /\ DescrConverterOutcomes(EventStreamDtype(returned.packet.variant)) # {""})
       => /\ result.kind = "error"
          /\ result.packet = NoPacket

\* C12: a Decoder object exists only if the path converted and the header
\* parsed; a construction that failed at either step returned an error and
\* left no object, no registry and no cursor, and neither __next__ nor
\* id_to_stream() nor a getter has ever run without an object.
C12_ReadyOnlyAfterConstruction ==
    /\ construction.object => (construction.path_ok /\ construction.header_ok)
    /\ (construction.called /\ ~(construction.path_ok /\ construction.header_ok))
       => /\ ~construction.object
          /\ result.kind = "error"
          /\ state = "initializing"
          /\ id_to_stream = NoRegistry
    /\ state # "initializing" => construction.object
    /\ (returned.tag # "" \/ python_value.method # "") => construction.object

\* C12 witness: the path converted, the header did not parse, and the
\* construction returned the error
C12_Witness ==
    /\ construction.called
    /\ construction.path_ok
    /\ ~construction.header_ok
    /\ ~construction.object
    /\ result = PyErr("HeaderError")

\* a step of __next__: every other step that changes the state is a
\* construction or changes the value returned by id_to_stream() or a getter
NextCalled ==
    /\ construction' = construction
    /\ python_value' = python_value

\* C13: a __next__ call of the aedat decoder that fails on a record
\* validation error (the decoder returned a packet, the conversion rejected
\* it) has moved the position by exactly one block, from a ready cursor to a
\* ready cursor.
C13_ValidationErrorConsumesOneBlock ==
    [][(/\ module = "aedat"
        /\ NextCalled
        /\ returned'.tag = "Some"
        /\ result'.kind = "error")
       => /\ state = "ready"
          /\ position' = position + 1
          /\ state' = "ready"]_vars

\* C13 witness: the first block had an event beyond the width, the call
\* failed, and the cursor is ready at the second block
C13_Witness ==
    /\ AedatElements("Events")
    /\ result = PyErr("XOverflow")
    /\ position = 1
    /\ state = "ready"

\* what id_to_stream() has to report for a stream of the registry
ExpectedStream(stream) ==
    CASE stream.content = "Events" ->
           [type |-> "events", width |-> stream.width, height |-> stream.height]
      [] stream.content = "Frame" ->
           [type |-> "frame", width |-> stream.width, height |-> stream.height]
      [] stream.content = "Imus" -> [type |-> "imus"]
      [] stream.content = "Triggers" -> [type |-> "triggers"]

\* C14: no call changes the registry, and id_to_stream() reports, whenever it
\* is called, the ids of the registry built at construction, each with its
\* content kind and, for events and frame streams, its width and height.
C14_RegistryIsFixed ==
    /\ [][id_to_stream' = id_to_stream]_vars
    /\ [](python_value.method = "id_to_stream"
            => /\ DOMAIN python_value.value = DOMAIN id_to_stream
               /\ \A id \in DOMAIN id_to_stream :
                     python_value.value[id] = ExpectedStream(id_to_stream[id]))

\* C14 witness: id_to_stream() was called on a decoder that has read two
\* blocks, returned an error and then a packet
C14_Witness ==
    /\ python_value.method = "id_to_stream"
    /\ position = 2
    /\ error_seen
    /\ result.kind = "packet"

\* the fields of the records of each event_stream variant
VariantFields(variant) ==
    CASE variant = "Generic" -> {"t", "bytes"}
      [] variant = "Dvs" -> {"t", "x", "y", "on"}
      [] variant = "Atis" -> {"t", "x", "y", "exposure", "polarity"}
      [] variant = "Color" -> {"t", "x", "y", "r", "g", "b"}

\* C15: event_stream_type never changes; every packet the event_stream
\* decoder yields is of the variant event_stream_type, every array returned
\* has the fields of that variant, and the getter reports that type.
C15_EventStreamTypeIsFixed ==
    /\ [][event_stream_type' = event_stream_type]_vars
    /\ []((module = "event_stream" /\ returned.tag = "Some")
            => returned.packet.variant = event_stream_type)
    /\ []((module = "event_stream" /\ result.kind = "packet")
            => \A i \in 1..Len(result.packet.value) :
                  DOMAIN result.packet.value[i] = VariantFields(event_stream_type))
    /\ [](python_value.method = "event_stream_type"
            => python_value.value
                 = (CASE event_stream_type = "Generic" -> "generic"
                      [] event_stream_type = "Dvs" -> "dvs"
                      [] event_stream_type = "Atis" -> "atis"
                      [] event_stream_type = "Color" -> "color"))

\* C15 witness: a Dvs decoder returned a packet of two events, and the getter
\* was called
C15_Witness ==
    /\ module = "event_stream"
    /\ event_stream_type = "Dvs"
    /\ python_value.method = "event_stream_type"
    /\ result.kind = "packet"
    /\ Len(result.packet.value) = 2

\* the key of the content entry of a packet of each content kind
ContentKey(content) ==
    CASE content = "Events" -> "events"
      [] content = "Frame" -> "frame"
      [] content = "Imus" -> "imus"
      [] content = "Triggers" -> "triggers"

\* C16: every packet returned by the aedat __next__ has a stream_id that is
\* an id of the registry, and its one content entry is the entry of the
\* content kind the registry declares for that stream.
C16_PacketStreamAndContent ==
    (module = "aedat" /\ result.kind = "packet")
    => /\ result.packet.stream_id \in DOMAIN id_to_stream
       /\ result.packet.stream_id = returned.packet.stream_id
       /\ result.packet.key \in {"events", "frame", "imus", "triggers"}
       /\ result.packet.key
            = ContentKey(id_to_stream[result.packet.stream_id].content)

\* C16 witness: a packet of the triggers stream was returned with two triggers
C16_Witness ==
    /\ module = "aedat"
    /\ result.kind = "packet"
    /\ result.packet.stream_id = 3
    /\ result.packet.key = "triggers"
    /\ Len(result.packet.value) = 2

\* the callers whose __next__ call on this instance is in progress
InFlight(i) == {c \in Callers : calls[c].pc # "idle" /\ calls[c].instance = i}

\* C17: at most one __next__ call is in progress on an instance, and the
\* instance is borrowed exactly while one is; the cursor of an instance moves
\* only in the decoder.next() step of the call that holds its borrow, a step
\* that leaves every other instance as it was; a call that is refused the
\* borrow moves nothing; no step changes the registry of an instance.
C17_OneCallInFlight ==
    /\ [](\A i \in Instances :
            /\ Cardinality(InFlight(i)) <= 1
            /\ (objects[i].borrow_flag = "UNUSED") <=> (InFlight(i) = {}))
    /\ [][\A i \in Instances :
            (objects'[i].position # objects[i].position \/ objects'[i].state # objects[i].state)
            => /\ \E c \in InFlight(i) :
                    /\ calls[c].pc = "borrowed"
                    /\ calls'[c].pc = "decoded"
               /\ \A j \in Instances \ {i} : objects'[j] = objects[j]]_vars
    /\ [][borrow_error' # borrow_error => objects' = objects]_vars
    /\ [][\A i \in Instances : objects'[i].id_to_stream = objects[i].id_to_stream]_vars

\* C17 witness: a call on the first instance has read a block and has not
\* returned yet, another call on that instance was refused, and the second
\* instance is where it was
C17_Witness ==
    /\ \E c \in Callers : calls[c] = [pc |-> "decoded", instance |-> 1]
    /\ borrow_error
    /\ objects[1].position = 1
    /\ objects[2].position = 0
    /\ objects[1].id_to_stream # objects[2].id_to_stream

\* C18 as stated: each submodule of the package exposes the Decoder of its
\* own format; the Decoder of faery.event_stream has event_stream_type, width
\* and height, the Decoder of faery.aedat has id_to_stream.
C18_EachModuleExposesItsOwnDecoder ==
    /\ faery["aedat"] = "aedat::Decoder"
    /\ faery["dat"] = "dat::Decoder"
    /\ faery["event_stream"] = "event_stream::Decoder"
    /\ faery["raw"] = "raw::Decoder"
    /\ module = "event_stream"
       => {"event_stream_type", "width", "height"} \subseteq Methods(faery[module])
    /\ module = "aedat" => "id_to_stream" \in Methods(faery[module])

\* the bytes one write of an imu sample covers: t is a u64, the rest are f32
WriteBytes(writes, k) ==
    writes[k][1] .. (writes[k][1] + TypeSize(writes[k][2]) - 1)

\* the number of bytes from the first byte written to the last
Span(writes) ==
    LET bytes == UNION {WriteBytes(writes, k) : k \in 1..Len(writes)}
        first == CHOOSE b \in bytes : \A c \in bytes : b <= c
        last == CHOOSE b \in bytes : \A c \in bytes : c <= b
    IN  last - first + 1

\* an imus packet was returned
ImusReturned == AedatElements("Imus") /\ result.kind = "packet"

\* C19 as stated: the bytes written for one imu sample span 44 bytes.
C19_ImuSampleSpans44Bytes ==
    ImusReturned
    => \A i \in 1..Len(LastTable.elements.value) :
          Span(ImuWrites(LastTable.elements.value[i])) = 44

\* C19 amended: the bytes written for one imu sample, t (u64) then the ten
\* f32 fields, span 48 bytes, the size of a record of the array; no two
\* fields overlap, and the caller reads every field as it is in the file.
C19_ImuSampleSpans48Bytes ==
    ImusReturned
    => /\ ItemSize(ImusDtype.list) = 48
       /\ Len(result.packet.value) = Len(LastTable.elements.value)
       /\ \A i \in 1..Len(LastTable.elements.value) :
             LET writes == ImuWrites(LastTable.elements.value[i])
             IN  /\ Span(writes) = 48
                 /\ writes[1][1] = 0
                 /\ \A k, l \in 1..Len(writes) :
                       k # l => WriteBytes(writes, k) \cap WriteBytes(writes, l) = {}
                 /\ result.packet.value[i] = LastTable.elements.value[i]

\* C19 witness: an imus packet of two samples was returned
C19_Witness ==
    /\ ImusReturned
    /\ Len(result.packet.value) = 2
    /\ result.packet.value[1].t # result.packet.value[2].t

\* C20: a frame of a known format whose pixel buffer is on disk is returned
\* exactly when the buffer holds width * height * bytes per pixel bytes, and
\* then with as many bytes; with any other length the call fails and returns
\* no packet.
C20_PresentPixelsHaveTheRightLength ==
    (/\ AedatReturned("Frame")
     /\ CompleteTable
     /\ LastTable.format \in {0, 1, 2}
     /\ LastTable.pixels.some)
    => LET expected == LastTable.width * LastTable.height * Channels(LastTable.format)
       IN  /\ (result.kind = "packet") <=> (Len(LastTable.pixels.value) = expected)
           /\ result.kind = "packet"
              => /\ Len(result.packet.value.pixels.data) = expected
                 /\ Product(result.packet.value.pixels.shape) = expected
           /\ Len(LastTable.pixels.value) # expected
              => /\ result.kind = "error"
                 /\ result.packet = NoPacket

\* C20 witness: a Bgr frame of two pixels came with eight bytes, and the call
\* failed
C20_Witness ==
    /\ AedatReturned("Frame")
    /\ CompleteTable
    /\ LastTable.format = 1
    /\ LastTable.width * LastTable.height = 2
    /\ LastTable.pixels.some
    /\ Len(LastTable.pixels.value) = 8
    /\ result.kind = "error"

\* the timestamps a returned packet carries: the t of its frame, or the t
\* of each of its records
PacketTimes(packet) ==
    IF packet.key = "frame" THEN {packet.value.t}
    ELSE {packet.value[i].t : i \in 1..Len(packet.value)}

\* C21 as stated: two packets of the same stream returned by successive
\* __next__ calls (the later call read one more block) are in non-decreasing
\* order of t: no timestamp of the later packet is smaller than a timestamp
\* of the earlier one.
C21_NonDecreasingWithinStream ==
    [][(/\ position' = position + 1
        /\ result.kind = "packet"
        /\ result'.kind = "packet"
        /\ result'.packet.stream_id = result.packet.stream_id)
       => \A earlier \in PacketTimes(result.packet) :
             \A later \in PacketTimes(result'.packet) : earlier <= later]_vars

\* the error the stated bounds give for one event, "" when it is accepted
StatedOverflow(event, stream) ==
    IF event.x < 0 \/ event.x >= stream.width THEN "XOverflow"
    ELSE IF event.y < 0 \/ event.y >= stream.height THEN "YOverflow"
    ELSE ""

\* C22 as stated: for every width and height of the u16 range, an aedat
\* event is rejected with XOverflow exactly when x < 0 or x >= width, with
\* YOverflow exactly when x is accepted and y < 0 or y >= height, and never
\* when 0 <= x < width and 0 <= y < height: the call fails with the error of
\* the first such event of the packet, and returns the packet when there is
\* none.
C22_OverflowExactlyOutOfBounds ==
    AedatElements("Events") =>
        LET events == LastTable.elements.value
            rejected == {i \in 1..Len(events) :
                            StatedOverflow(events[i], LastStream) # ""}
        IN  IF rejected = {} THEN result.kind = "packet"
            ELSE \E i \in rejected :
                    /\ \A j \in rejected : i <= j
                    /\ result = PyErr(StatedOverflow(events[i], LastStream))

\* C23: in a file that declares width and height, every record of an events
\* array returned by the event_stream decoder (Dvs, Atis or Color) has
\* x < width and y < height; a packet holding a record outside the geometry
\* is not returned: the call fails with XOverflow or YOverflow.
C23_EventStreamRecordsInBounds ==
    (module = "event_stream" /\ width.some /\ height.some)
        => /\ result.kind = "packet"
              => \A i \in 1..Len(result.packet.value) :
                    /\ result.packet.value[i].x < width.value
                    /\ result.packet.value[i].y < height.value
           /\ (returned.tag = "Err" /\ returned.error \in {"XOverflow", "YOverflow"})
              => result = PyErr(returned.error)

\* C23 witness: a Dvs packet came back with a record on the last column and
\* the last row, and the packet read before it was rejected
C23_Witness ==
    /\ module = "event_stream"
    /\ event_stream_type = "Dvs"
    /\ result.kind = "packet"
    /\ error_seen
    /\ \E i \in 1..Len(result.packet.value) :
          /\ result.packet.value[i].x = width.value - 1
          /\ result.packet.value[i].y = height.value - 1

\* the pair <<exposure flag, polarity value>> stated for each Atis polarity
StatedAtisPair(polarity) ==
    CASE polarity = "Off" -> <<0, 0>>
      [] polarity = "On" -> <<0, 1>>
      [] polarity = "ExposureStart" -> <<1, 0>>
      [] polarity = "ExposureEnd" -> <<1, 1>>

\* C24 as stated: every event of an Atis packet comes back with the pair
\* (exposure, polarity) of its polarity: Off -> (0, 0), On -> (0, 1),
\* ExposureStart -> (1, 0), ExposureEnd -> (1, 1), so that the exposure flag
\* is set exactly for ExposureStart and ExposureEnd and the polarity value
\* exactly for On and ExposureEnd.
C24_AtisPolarityPairs ==
    (/\ module = "event_stream"
     /\ returned.tag = "Some"
     /\ returned.packet.variant = "Atis")
        => /\ result.kind = "packet"
           /\ Len(result.packet.value) = Len(returned.packet.events)
           /\ \A i \in 1..Len(returned.packet.events) :
                 LET polarity == returned.packet.events[i].polarity
                     record == result.packet.value[i]
                 IN  /\ <<record.exposure, record.polarity>> = StatedAtisPair(polarity)
                     /\ record.exposure = 1 <=> polarity \in {"ExposureStart", "ExposureEnd"}
                     /\ record.polarity = 1 <=> polarity \in {"On", "ExposureEnd"}

\* a packet of a record kind the binding converts into a structured array
\* was handed over by the decoder
Converting ==
    \/ module = "event_stream" /\ returned.tag = "Some"
    \/ \E content \in {"Events", "Imus", "Triggers"} : AedatElements(content)

\* the dtype field list built for that packet
ConvertedDtype ==
    IF module = "event_stream" THEN EventStreamDtype(returned.packet.variant)
    ELSE CASE LastStream.content = "Events" -> EventsDtype
           [] LastStream.content = "Imus" -> ImusDtype
           [] LastStream.content = "Triggers" -> TriggersDtype

\* the field names of that record kind
KindFields ==
    IF module = "event_stream" THEN VariantFields(returned.packet.variant)
    ELSE CASE LastStream.content = "Events" -> {"t", "x", "y", "on"}
           [] LastStream.content = "Imus" ->
                {"t"} \cup {ImuFields[i] : i \in DOMAIN ImuFields}
           [] LastStream.content = "Triggers" -> {"t", "source"}

\* C25 as stated: for every record kind the binding converts, the dtype
\* field list has exactly as many slots as fields are set into it, every
\* index set is inside the list and no slot stays unset, so the conversion
\* of a packet never panics and an array that is returned has exactly the
\* fields of the record kind.
C25_DtypeListMatchesFields ==
    Converting =>
        /\ ConvertedDtype.panic = ""
        /\ Len(ConvertedDtype.list) = Cardinality(KindFields)
        /\ \A i \in 1..Len(ConvertedDtype.list) : ConvertedDtype.list[i] # Null
        /\ {ConvertedDtype.list[i][1] : i \in 1..Len(ConvertedDtype.list)} = KindFields
        /\ result.kind \notin {"panic", "crash"}
        /\ result.kind = "packet"
           => \A i \in 1..Len(result.packet.value) :
                 DOMAIN result.packet.value[i] = KindFields

\* C26: an aedat Events, Imus or Triggers block whose elements field is
\* present and holds no record is a valid batch: __next__ returns a packet
\* of that stream whose array has length 0; EmptyEventsPacket is returned
\* only for a block whose elements field is absent.
C26_EmptyBatchIsValid ==
    /\ \A content \in {"Events", "Imus", "Triggers"} :
          (AedatElements(content) /\ Len(LastTable.elements.value) = 0)
              => /\ result.kind = "packet"
                 /\ result.packet.stream_id = returned.packet.stream_id
                 /\ result.packet.key = ContentKey(content)
                 /\ Len(result.packet.value) = 0
    /\ (module = "aedat" /\ result = PyErr("EmptyEventsPacket"))
          => /\ returned.tag = "Some"
             /\ returned.packet.stream.content \in {"Events", "Imus", "Triggers"}
             /\ CompleteTable
             /\ ~LastTable.elements.some

\* C26 witness: the second block read was an Events block with an elements
\* field holding no event, and the call returned an empty "events" array
C26_Witness ==
    /\ AedatElements("Events")
    /\ LastTable.elements.value = <<>>
    /\ position = 2
    /\ result = PyPacket(0, "events", <<>>)

\* a Bgra frame with pixels on disk was returned as "RGBA"
C10_ReturnedRgba ==
    /\ AedatReturned("Frame")
    /\ CompleteTable
    /\ LastTable.format = 2
    /\ LastTable.pixels.some
    /\ result.kind = "packet"
    /\ result.packet.value.format = "RGBA"

====
